---------------------------- MODULE Spec2Model ----------------------------
(***************************************************************************)
(* A model of the VxRail scripts:                                          *)
(*   vxrail_health_check.py  main: version, cluster, hosts, storage checks *)
(*   check_health.py         main: basic health, then the pre-check job    *)
(*   hardware_inventory.py   get_hardware_inventory                        *)
(* One run of one script is one behaviour; the server's replies are the    *)
(* inputs, drawn in the action that issues the request.                    *)
(*                                                                         *)
(* Text values whose case is converted (health labels, disk states,        *)
(* serial numbers, versions) are sequences of one-character strings; an    *)
(* JSON object is a function from the keys it has; Python's None is <<>>   *)
(* and any other value v is <<v>>.                                         *)
(***************************************************************************)
EXTENDS Integers, Sequences, FiniteSets, TLC

VARIABLES
    script,           \* which script runs
    pc,               \* position in that script
    log,              \* requests issued and sleeps taken so far, in order
    resp,             \* the last request's kind and the status of its reply
    given,            \* the reply handed to a check function called on its own
    failedKinds,      \* the queries that make_api_request answered with None
    authFailedAt,     \* index in log of the first request answered 401, or 0
    \* vxrail_health_check.py main
    version, versionNote, cluster_healthy, hosts_healthy, storage_healthy,
    storage_info, system_healthy, summary,
    emptyReplies,     \* kinds whose query succeeded with an empty body
    hasRecords,       \* kinds whose query returned at least one entity record
    unhealthyKinds,   \* kinds with a record that is not healthy
    \* check_health.py
    basic_health, request_id, observed, waited, result, returned,
    \* hardware_inventory.py
    inventory, replies

vars == <<script, pc, log, resp, given, failedKinds, authFailedAt, version,
          versionNote, cluster_healthy, hosts_healthy, storage_healthy,
          storage_info, system_healthy, summary, emptyReplies, hasRecords,
          unhealthyKinds, basic_health, request_id,
          observed, waited, result, returned, inventory, replies>>

healthVars == <<version, versionNote, cluster_healthy, hosts_healthy,
                storage_healthy, storage_info, system_healthy, summary,
                emptyReplies, hasRecords,
                unhealthyKinds>>
precheckVars == <<basic_health, request_id, observed, waited, result, returned>>
inventoryVars == <<inventory, replies>>

---------------------------------------------------------------------------
(* Bounds of the model *)

MaxHosts == 2      \* host records in one hosts response
MaxDisks == 2      \* disk records in one hosts response, over all its hosts
MaxPolls == 4      \* sleeps of one pre-check poll loop
MaxItems == 2      \* items in one inventory response

---------------------------------------------------------------------------
(* Text: str.lower(), str.upper(), str.__lt__ *)

LowerLetters == <<"a","b","c","d","e","f","g","h","i","j","k","l","m",
                  "n","o","p","q","r","s","t","u","v","w","x","y","z">>
UpperLetters == <<"A","B","C","D","E","F","G","H","I","J","K","L","M",
                  "N","O","P","Q","R","S","T","U","V","W","X","Y","Z">>

LowerChar(c) ==
    IF \E i \in 1..26 : UpperLetters[i] = c
    THEN LowerLetters[CHOOSE i \in 1..26 : UpperLetters[i] = c]
    ELSE c

UpperChar(c) ==
    IF \E i \in 1..26 : LowerLetters[i] = c
    THEN UpperLetters[CHOOSE i \in 1..26 : LowerLetters[i] = c]
    ELSE c

lower_NoFold(s) == s

lower(s) == [i \in 1..Len(s) |-> LowerChar(s[i])]

upper(s) == [i \in 1..Len(s) |-> UpperChar(s[i])]

\* The characters of a version string, in code point order.
VersionChars == <<".", "0", "1", "2", "3", "4", "5", "6", "7", "8", "9">>

CharOrd(c) == CHOOSE i \in 1..Len(VersionChars) : VersionChars[i] = c

\* a < b for Python strings: lexicographic by code point.
RECURSIVE StrLess(_, _)
StrLess(a, b) ==
    IF b = <<>> THEN FALSE
    ELSE IF a = <<>> THEN TRUE
    ELSE IF CharOrd(Head(a)) < CharOrd(Head(b)) THEN TRUE
    ELSE IF CharOrd(Head(a)) > CharOrd(Head(b)) THEN FALSE
    ELSE StrLess(Tail(a), Tail(b))

S_healthy == <<"h","e","a","l","t","h","y">>
S_HEALTHY == <<"H","E","A","L","T","H","Y">>
S_Healthy == <<"H","e","a","l","t","h","y">>
S_degraded == <<"d","e","g","r","a","d","e","d">>
S_Unknown == <<"U","n","k","n","o","w","n">>
S_OK == <<"O","K">>
S_ok == <<"o","k">>
S_DEGRADED == <<"D","E","G","R","A","D","E","D">>
S_SN1 == <<"S","N","1">>
S_SN2 == <<"S","N","2">>
V_7_0_480 == <<"7",".","0",".","4","8","0">>
V_8_0_000 == <<"8",".","0",".","0","0","0">>
V_10_0_000 == <<"1","0",".","0",".","0","0","0">>

\* A JSON object is a function from its keys; {} is the empty function.
\* dict.get(key, default)
Get(d, key, default) == IF key \in DOMAIN d THEN d[key] ELSE default

\* Python's None is <<>> and any other value v is <<v>>.
None == <<>>

Some(v) == <<v>>

\* bool(x) of a dict or of a list
Truthy(x) == DOMAIN x # {}

\* All sequences over S of length at most n
SeqsUpTo(S, n) == UNION {[1..k -> S] : k \in 0..n}

---------------------------------------------------------------------------
(* The transport: requests.get / requests.post with raise_for_status().    *)
(* A reply is [status |-> "ok", body |-> json] or [status |-> error].      *)

ErrorKinds == {"Unauthorized", "NotFound", "Unreachable", "TimedOut"}

ErrorReplies == {[status |-> e] : e \in ErrorKinds}

OkReplies(bodies) == {[status |-> "ok", body |-> b] : b \in bodies}

\* make_api_request: the JSON response, or None on any RequestException.
make_api_request(reply) ==
    IF reply.status = "ok" THEN Some(reply.body) ELSE None

\* What every request does to the record of the run.
Issue(kind, endpoint, reply) ==
    /\ log' = Append(log, endpoint)
    /\ resp' = [kind |-> kind, status |-> reply.status]
    /\ failedKinds' = IF reply.status = "ok" THEN failedKinds
                      ELSE failedKinds \cup {kind}
    /\ authFailedAt' = IF authFailedAt = 0 /\ reply.status = "Unauthorized"
                       THEN Len(log) + 1 ELSE authFailedAt

---------------------------------------------------------------------------
(* The replies the server can give *)

HealthLabels == {S_healthy, S_HEALTHY, S_Healthy, S_degraded}

Versions == {V_7_0_480, V_8_0_000, V_10_0_000}

\* GET /rest/vxm/v1/system
SystemBodies ==
    {<<>>, [description |-> "VxRail"]}
    \cup {[description |-> "VxRail", version |-> v] : v \in Versions}

\* GET /rest/vxm/v1/cluster
ClusterBodies ==
    {<<>>, [cluster_name |-> "c1"]}
    \cup {[cluster_name |-> "c1", health |-> h] : h \in HealthLabels}

\* GET /rest/vxm/v16/hosts as check_hosts_health reads it: of a host record
\* it uses the health field alone.
HostRecords ==
    {[hostname |-> "h"]}
    \cup {[hostname |-> "h", health |-> h] : h \in HealthLabels}

HostsBodies == SeqsUpTo(HostRecords, MaxHosts)

DiskRecords ==
    LET sns == {S_SN1, S_SN2}
        states == {S_OK, S_DEGRADED}
    IN  {[disk_type |-> "SSD", sn |-> S_SN1],
         [disk_type |-> "SSD", sn |-> S_SN1, disk_state |-> S_ok]}
        \cup {[disk_type |-> "SSD", disk_state |-> st] : st \in states}
        \cup {[disk_type |-> "SSD", sn |-> n, disk_state |-> st] :
                 n \in sns, st \in states}

\* GET /rest/vxm/v16/hosts as check_storage_health reads it: of a host
\* record it uses the disks field alone.
DiskHostRecords(k) ==
    {[hostname |-> "h"]}
    \cup {[hostname |-> "h", disks |-> ds] :
             ds \in SeqsUpTo(DiskRecords, k) \ {<<>>}}

\* The lists of at most h host records with at most k disk records in all
RECURSIVE HostLists(_, _)
HostLists(h, k) ==
    IF h = 0 THEN {<<>>}
    ELSE {<<>>} \cup
         UNION {{<<host>> \o rest :
                    rest \in HostLists(h - 1, k - Len(Get(host, "disks", <<>>)))} :
                host \in DiskHostRecords(k)}

StorageBodies == HostLists(MaxHosts, MaxDisks)

---------------------------------------------------------------------------
(* vxrail_health_check.py *)

\* check_vxrail_version: the version, or None
check_vxrail_version(reply) ==
    LET response == make_api_request(reply)
    IN  IF response # None /\ Truthy(response[1])
        THEN IF "version" \in DOMAIN response[1]
             THEN Some(response[1].version) ELSE None
        ELSE None

\* main: which message follows the version check
VersionNote(v) ==
    IF v = None \/ v[1] = <<>> THEN "undetermined"
    ELSE IF StrLess(v[1], V_8_0_000) THEN "older"
    ELSE "none"

\* health_status.lower() == 'healthy'
LabelHealthy(health_status) == lower(health_status) = S_healthy

\* disk_state.upper() != 'OK'
StateNotOk(disk_state) == upper(disk_state) # S_OK

check_cluster_health(reply) ==
    LET response == make_api_request(reply)
    IN  IF response # None /\ Truthy(response[1])
        THEN LabelHealthy(Get(response[1], "health", S_Unknown))
        ELSE FALSE

\* The loop over the hosts of check_hosts_health
RECURSIVE HostsLoop(_, _)
HostsLoop(hosts, all_healthy) ==
    IF hosts = <<>> THEN all_healthy
    ELSE LET health_status == Get(Head(hosts), "health", S_Unknown)
         IN  HostsLoop(Tail(hosts),
                       IF ~LabelHealthy(health_status) THEN FALSE
                       ELSE all_healthy)

check_hosts_health(reply) ==
    LET response == make_api_request(reply)
    IN  IF ~(response # None /\ Truthy(response[1])) THEN FALSE
        ELSE HostsLoop(response[1], TRUE)

StorageDisk_LastWins(disk, st) ==
    LET sn == Get(disk, "sn", S_Unknown)
        disk_state == Get(disk, "disk_state", S_Unknown)
    IN  [all_healthy |-> IF StateNotOk(disk_state) THEN FALSE
                         ELSE st.all_healthy,
         storage_info |-> (sn :> disk_state) @@ st.storage_info]

\* One disk of the inner loop of check_storage_health; st is
\* [all_healthy, storage_info].
StorageDisk(disk, st) ==
    LET sn == Get(disk, "sn", S_Unknown)
    IN  IF sn \notin DOMAIN st.storage_info
        THEN LET disk_state == Get(disk, "disk_state", S_Unknown)
             IN  [all_healthy |-> IF StateNotOk(disk_state) THEN FALSE
                                  ELSE st.all_healthy,
                  storage_info |-> st.storage_info @@ (sn :> disk_state)]
        ELSE st

RECURSIVE DisksLoop(_, _)
DisksLoop(disks, st) ==
    IF disks = <<>> THEN st
    ELSE DisksLoop(Tail(disks), StorageDisk(Head(disks), st))

RECURSIVE StorageHostsLoop(_, _)
StorageHostsLoop(hosts, st) ==
    IF hosts = <<>> THEN st
    ELSE StorageHostsLoop(Tail(hosts),
                          DisksLoop(Get(Head(hosts), "disks", <<>>), st))

\* check_storage_health: the verdict, with the dict it built
check_storage_health(reply) ==
    LET response == make_api_request(reply)
    IN  IF ~(response # None /\ Truthy(response[1]))
        THEN [all_healthy |-> FALSE, storage_info |-> <<>>]
        ELSE StorageHostsLoop(response[1],
                              [all_healthy |-> TRUE, storage_info |-> <<>>])

\* main: the lines of the summary
SectionLine(healthy) == IF healthy THEN "Healthy" ELSE "Unhealthy"

OverallLine(healthy) == IF healthy THEN "HEALTHY" ELSE "ATTENTION REQUIRED"

all_Any(flags) == \E i \in DOMAIN flags : flags[i]

\* all([...])
all(flags) == \A i \in DOMAIN flags : flags[i]

\* What the specification calls healthy: the label, compared without regard
\* to case, is "healthy"; for a disk, the state is "OK".
SameLetter(c, d) ==
    \/ c = d
    \/ \E i \in 1..26 : {c, d} = {LowerLetters[i], UpperLetters[i]}

EqualsIgnoringCase(a, b) ==
    /\ Len(a) = Len(b)
    /\ \A i \in 1..Len(a) : SameLetter(a[i], b[i])

RecordHealthy(rec) ==
    "health" \in DOMAIN rec /\ EqualsIgnoringCase(rec.health, S_healthy)

DiskHealthy(disk) ==
    "disk_state" \in DOMAIN disk /\ EqualsIgnoringCase(disk.disk_state, S_OK)

\* The disk records of a hosts response, in host-then-disk order
RECURSIVE Flatten(_)
Flatten(hosts) ==
    IF hosts = <<>> THEN <<>>
    ELSE Get(Head(hosts), "disks", <<>>) \o Flatten(Tail(hosts))

\* The serial a disk record is known by
SerialOf(disk) == Get(disk, "sn", S_Unknown)

\* The positions of the records that are the first with their serial
FirstSeen(flat) ==
    {i \in 1..Len(flat) :
        \A j \in 1..(i - 1) : SerialOf(flat[j]) # SerialOf(flat[i])}

\* What a reply adds to the kinds seen empty, with records, and unhealthy;
\* healthy holds one verdict for each entity record of the reply.
NoteEmpty(kind, reply) ==
    emptyReplies' = IF reply.status = "ok" /\ ~Truthy(reply.body)
                    THEN emptyReplies \cup {kind} ELSE emptyReplies

NoteRecords(kind, healthy) ==
    /\ hasRecords' = IF DOMAIN healthy # {} THEN hasRecords \cup {kind}
                     ELSE hasRecords
    /\ unhealthyKinds' =
          IF \E i \in DOMAIN healthy : ~healthy[i]
          THEN unhealthyKinds \cup {kind} ELSE unhealthyKinds

\* The verdicts on the entity records of a reply: the cluster object, the
\* host records, the disk records that are the first with their serial.
ClusterVerdicts(reply) ==
    IF reply.status = "ok" THEN <<RecordHealthy(reply.body)>> ELSE <<>>

HostVerdicts(reply) ==
    IF reply.status = "ok"
    THEN [i \in DOMAIN reply.body |-> RecordHealthy(reply.body[i])]
    ELSE <<>>

DiskVerdicts(reply) ==
    IF reply.status = "ok"
    THEN LET flat == Flatten(reply.body)
         IN  [i \in FirstSeen(flat) |-> DiskHealthy(flat[i])]
    ELSE <<>>

CheckVersion ==
    /\ script = "vxrail_health_check" /\ pc = "version"
    /\ \E reply \in ErrorReplies \cup OkReplies(SystemBodies) :
        /\ Issue("version", "GET /rest/vxm/v1/system", reply)
        /\ version' = check_vxrail_version(reply)
        /\ versionNote' = VersionNote(version')
    /\ pc' = "cluster"
    /\ UNCHANGED <<script, given, cluster_healthy, hosts_healthy,
                   storage_healthy, storage_info, system_healthy, summary,
                   emptyReplies, hasRecords, unhealthyKinds>>
    /\ UNCHANGED <<precheckVars, inventoryVars>>

CheckCluster ==
    /\ script = "vxrail_health_check" /\ pc = "cluster"
    /\ \E reply \in ErrorReplies \cup OkReplies(ClusterBodies) :
        /\ Issue("cluster", "GET /rest/vxm/v1/cluster", reply)
        /\ cluster_healthy' = check_cluster_health(reply)
        /\ NoteEmpty("cluster", reply)
        /\ NoteRecords("cluster", ClusterVerdicts(reply))
    /\ pc' = "hosts"
    /\ UNCHANGED <<script, given, version, versionNote, hosts_healthy,
                   storage_healthy, storage_info, system_healthy, summary>>
    /\ UNCHANGED <<precheckVars, inventoryVars>>

CheckHosts ==
    /\ script = "vxrail_health_check" /\ pc = "hosts"
    /\ \E reply \in ErrorReplies \cup OkReplies(HostsBodies) :
        /\ Issue("hosts", "GET /rest/vxm/v16/hosts", reply)
        /\ hosts_healthy' = check_hosts_health(reply)
        /\ NoteEmpty("hosts", reply)
        /\ NoteRecords("hosts", HostVerdicts(reply))
    /\ pc' = "storage"
    /\ UNCHANGED <<script, given, version, versionNote, cluster_healthy,
                   storage_healthy, storage_info, system_healthy, summary>>
    /\ UNCHANGED <<precheckVars, inventoryVars>>

\* The storage check, and the summary main prints after it
CheckStorage ==
    /\ script = "vxrail_health_check" /\ pc = "storage"
    /\ \E reply \in ErrorReplies \cup OkReplies(StorageBodies) :
        /\ Issue("storage", "GET /rest/vxm/v16/hosts", reply)
        /\ storage_healthy' = check_storage_health(reply).all_healthy
        /\ NoteEmpty("storage", reply)
        /\ NoteRecords("storage", DiskVerdicts(reply))
    /\ system_healthy' = all(<<cluster_healthy, hosts_healthy, storage_healthy'>>)
    /\ summary' = Some([cluster |-> SectionLine(cluster_healthy),
                        hosts |-> SectionLine(hosts_healthy),
                        storage |-> SectionLine(storage_healthy'),
                        overall |-> OverallLine(system_healthy')])
    /\ pc' = "done"
    /\ UNCHANGED <<script, given, version, versionNote, cluster_healthy,
                   hosts_healthy, storage_info>>
    /\ UNCHANGED <<precheckVars, inventoryVars>>

\* A check function called on its own: the reply it got is kept in given,
\* and storage_info is the dict check_storage_health had built on return.
CallClusterHealth ==
    /\ script = "vxrail_health_check" /\ pc = "call_cluster"
    /\ \E reply \in ErrorReplies \cup OkReplies(ClusterBodies) :
        /\ Issue("cluster", "GET /rest/vxm/v1/cluster", reply)
        /\ given' = reply
        /\ cluster_healthy' = check_cluster_health(reply)
    /\ pc' = "returned"
    /\ UNCHANGED <<script, version, versionNote, hosts_healthy,
                   storage_healthy, storage_info, system_healthy, summary,
                   emptyReplies, hasRecords, unhealthyKinds>>
    /\ UNCHANGED <<precheckVars, inventoryVars>>

CallHostsHealth ==
    /\ script = "vxrail_health_check" /\ pc = "call_hosts"
    /\ \E reply \in ErrorReplies \cup OkReplies(HostsBodies) :
        /\ Issue("hosts", "GET /rest/vxm/v16/hosts", reply)
        /\ given' = reply
        /\ hosts_healthy' = check_hosts_health(reply)
    /\ pc' = "returned"
    /\ UNCHANGED <<script, version, versionNote, cluster_healthy,
                   storage_healthy, storage_info, system_healthy, summary,
                   emptyReplies, hasRecords, unhealthyKinds>>
    /\ UNCHANGED <<precheckVars, inventoryVars>>

CallStorageHealth ==
    /\ script = "vxrail_health_check" /\ pc = "call_storage"
    /\ \E reply \in ErrorReplies \cup OkReplies(StorageBodies) :
        /\ Issue("storage", "GET /rest/vxm/v16/hosts", reply)
        /\ given' = reply
        /\ storage_healthy' = check_storage_health(reply).all_healthy
        /\ storage_info' = check_storage_health(reply).storage_info
    /\ pc' = "returned"
    /\ UNCHANGED <<script, version, versionNote, cluster_healthy,
                   hosts_healthy, system_healthy, summary,
                   emptyReplies, hasRecords, unhealthyKinds>>
    /\ UNCHANGED <<precheckVars, inventoryVars>>

---------------------------------------------------------------------------
(* check_health.py *)

PollInterval == 5

\* GET /v3/system
BasicBodies == {[health |-> S_healthy, operational_status |-> "ok"]}

\* POST /v1/lcm/precheck
SubmitBodies == {[accepted |-> TRUE],
                 [accepted |-> TRUE, request_id |-> ""],
                 [accepted |-> TRUE, request_id |-> "abc"]}

\* GET /v1/requests/{request_id}
StatusBodies ==
    {[id |-> "abc"]}
    \cup {[id |-> "abc", state |-> s] :
             s \in {"PENDING", "RUNNING", "COMPLETED", "FAILED"}}

\* GET /v1/system/prechecks/{request_id}/result
ResultBodies == {[data |-> "check_list"]}

NoRequestId_NoneOnly(rid) == rid = None

\* not request_id
NoRequestId(rid) == rid = None \/ rid[1] = ""

AfterStatus_BusyPoll(state) ==
    IF state = "COMPLETED" THEN "fetch"
    ELSE IF state = "FAILED" THEN "done"
    ELSE "poll"

AfterStatus_FetchOnFailed(state) ==
    IF state \in {"COMPLETED", "FAILED"} THEN "fetch" ELSE "sleep"

\* Where the loop goes on a status reply: the result fetch on COMPLETED, the
\* return on FAILED, and otherwise the sleep before the next query.
AfterStatus(state) ==
    IF state = "COMPLETED" THEN "fetch"
    ELSE IF state = "FAILED" THEN "done"
    ELSE "sleep"

\* get_basic_health, called by main before the pre-check
GetBasicHealth ==
    /\ script = "check_health" /\ pc = "basic"
    /\ \E reply \in ErrorReplies \cup OkReplies(BasicBodies) :
        /\ Issue("basic", "GET /v3/system", reply)
        /\ basic_health' =
              IF reply.status = "ok"
              THEN Some([health |-> Get(reply.body, "health", None),
                         state |-> Get(reply.body, "operational_status", None)])
              ELSE None
    /\ pc' = "submit"
    /\ UNCHANGED <<script, given, request_id, observed, waited, result, returned>>
    /\ UNCHANGED <<healthVars, inventoryVars>>

\* perform_health_precheck: the submission
SubmitPrecheck ==
    /\ script = "check_health" /\ pc = "submit"
    /\ \E reply \in ErrorReplies \cup OkReplies(SubmitBodies) :
        /\ Issue("submit", "POST /v1/lcm/precheck", reply)
        /\ IF reply.status # "ok"
           THEN /\ request_id' = None
                /\ returned' = "error"
                /\ pc' = "done"
           ELSE /\ request_id' = IF "request_id" \in DOMAIN reply.body
                                 THEN Some(reply.body.request_id) ELSE None
                /\ IF NoRequestId(request_id')
                   THEN returned' = "no_request_id" /\ pc' = "done"
                   ELSE returned' = returned /\ pc' = "poll"
    /\ result' = None
    /\ UNCHANGED <<script, given, basic_health, observed, waited>>
    /\ UNCHANGED <<healthVars, inventoryVars>>

\* perform_health_precheck: one status query of the loop
PollStatus ==
    /\ script = "check_health" /\ pc = "poll"
    /\ \E reply \in ErrorReplies \cup OkReplies(StatusBodies) :
        /\ Issue("status", "GET /v1/requests/{request_id}", reply)
        /\ IF reply.status # "ok"
           THEN /\ observed' = Append(observed, reply.status)
                /\ returned' = "error"
                /\ pc' = "done"
           ELSE LET state == Get(reply.body, "state", "")
                IN  /\ observed' = Append(observed, state)
                    /\ pc' = AfterStatus(state)
                    /\ returned' = IF state = "FAILED" THEN "failed"
                                   ELSE returned
    /\ UNCHANGED <<script, given, basic_health, request_id, waited, result>>
    /\ UNCHANGED <<healthVars, inventoryVars>>

\* perform_health_precheck: time.sleep(5), then the next query
Sleep ==
    /\ script = "check_health" /\ pc = "sleep"
    /\ waited < MaxPolls * PollInterval
    /\ log' = Append(log, "sleep")
    /\ waited' = waited + PollInterval
    /\ pc' = "poll"
    /\ UNCHANGED <<script, resp, given, failedKinds, authFailedAt, basic_health,
                   request_id, observed, result, returned>>
    /\ UNCHANGED <<healthVars, inventoryVars>>

\* perform_health_precheck: the result of a completed pre-check
FetchResult ==
    /\ script = "check_health" /\ pc = "fetch"
    /\ \E reply \in ErrorReplies \cup OkReplies(ResultBodies) :
        /\ Issue("result", "GET /v1/system/prechecks/{request_id}/result", reply)
        /\ IF reply.status # "ok"
           THEN result' = None /\ returned' = "error"
           ELSE result' = Some(reply.body) /\ returned' = "results"
    /\ pc' = "done"
    /\ UNCHANGED <<script, given, basic_health, request_id, observed, waited>>
    /\ UNCHANGED <<healthVars, inventoryVars>>

---------------------------------------------------------------------------
(* hardware_inventory.py: get_hardware_inventory *)

ItemLists == SeqsUpTo({"item1", "item2"}, MaxItems)

Sections == <<"hosts", "chassis", "disks">>

Endpoints == [hosts |-> "GET /v7/hosts", chassis |-> "GET /v4/chassis",
              disks |-> "GET /v1/disks"]

StoreSection_FirstKey(inv, section, data) ==
    IF data # None /\ Truthy(data[1])
    THEN [inv EXCEPT !["hosts"] = data[1]]
    ELSE inv

\* data = make_api_request(...); if data: inventory[section] = data
StoreSection(inv, section, data) ==
    IF data # None /\ Truthy(data[1])
    THEN [inv EXCEPT ![section] = data[1]]
    ELSE inv

\* The i-th query of get_hardware_inventory
InventoryQuery(i) ==
    /\ script = "hardware_inventory" /\ pc = Sections[i]
    /\ \E reply \in ErrorReplies \cup OkReplies(ItemLists) :
        /\ Issue(Sections[i], Endpoints[Sections[i]], reply)
        /\ inventory' = StoreSection(inventory, Sections[i],
                                     make_api_request(reply))
        /\ replies' = Append(replies, reply)
    /\ pc' = IF i < Len(Sections) THEN Sections[i + 1] ELSE "done"
    /\ UNCHANGED <<script, given>>
    /\ UNCHANGED <<healthVars, precheckVars>>

GetHosts == InventoryQuery(1)

GetChassis == InventoryQuery(2)

GetDisks == InventoryQuery(3)

---------------------------------------------------------------------------

Scripts == {"vxrail_health_check", "check_health", "hardware_inventory"}

\* Where a run starts: at the script's main, or for vxrail_health_check at
\* one of its check functions, called on its own.
Entry == [vxrail_health_check |->
              {"version", "call_cluster", "call_hosts", "call_storage"},
          check_health |-> {"basic"},
          hardware_inventory |-> {"hosts"}]

Init ==
    /\ script \in Scripts
    /\ pc \in Entry[script]
    /\ log = <<>>
    /\ resp = [kind |-> "none", status |-> "none"]
    /\ given = [status |-> "none"]
    /\ failedKinds = {}
    /\ authFailedAt = 0
    /\ version = None
    /\ versionNote = ""
    /\ cluster_healthy = FALSE
    /\ hosts_healthy = FALSE
    /\ storage_healthy = FALSE
    /\ storage_info = <<>>
    /\ system_healthy = FALSE
    /\ summary = None
    /\ emptyReplies = {}
    /\ hasRecords = {}
    /\ unhealthyKinds = {}
    /\ basic_health = None
    /\ request_id = None
    /\ observed = <<>>
    /\ waited = 0
    /\ result = None
    /\ returned = ""
    /\ inventory = [hosts |-> <<>>, chassis |-> <<>>, disks |-> <<>>]
    /\ replies = <<>>

Next ==
    \/ CheckVersion
    \/ CheckCluster
    \/ CheckHosts
    \/ CheckStorage
    \/ CallClusterHealth
    \/ CallHostsHealth
    \/ CallStorageHealth
    \/ GetBasicHealth
    \/ SubmitPrecheck
    \/ PollStatus
    \/ Sleep
    \/ FetchResult
    \/ GetHosts
    \/ GetChassis
    \/ GetDisks

Spec == Init /\ [][Next]_vars

---------------------------------------------------------------------------
(* The pre-check tracker *)

Last(q) == q[Len(q)]

Range(q) == {q[i] : i \in DOMAIN q}

\* The states a status query may report that do not end the tracking
NonTerminal == {"", "PENDING", "RUNNING"}

OnlyNonTerminal(obs) == \A i \in 1..Len(obs) : obs[i] \in NonTerminal

\* The time budget of the "tracker timeout" scenario: less than three poll
\* intervals.
MaxWait == 3 * PollInterval - 1

\* The log of a pre-check whose status queries saw n non-terminal states and
\* then COMPLETED: n times a query and a sleep, the last query, and the fetch
\* of the result once it is made.
RECURSIVE QueriesAndSleeps(_)
QueriesAndSleeps(n) ==
    IF n = 0 THEN <<>>
    ELSE <<"GET /v1/requests/{request_id}", "sleep">> \o QueriesAndSleeps(n - 1)

CompletedLog(n, fetched) ==
    <<"GET /v3/system", "POST /v1/lcm/precheck">>
    \o QueriesAndSleeps(n)
    \o <<"GET /v1/requests/{request_id}">>
    \o (IF fetched
        THEN <<"GET /v1/system/prechecks/{request_id}/result">> ELSE <<>>)

\* C1: while every status query is answered with a non-terminal state, the
\* poll loop stops once the waiting would exceed max_wait, and the tracker
\* ends with the outcome TIMED_OUT.
C1_PollLoopTimesOut ==
    (/\ script = "check_health"
     /\ OnlyNonTerminal(observed)
     /\ Len(observed) * PollInterval > MaxWait)
    => (pc = "done" /\ returned = "timed_out")

\* C2: a pre-check whose status queries see n non-terminal states and then
\* COMPLETED makes n + 1 status queries with exactly one sleep between two
\* consecutive ones and none after the last, and then fetches the result
\* exactly once before it returns.
C2_SleepsAndFetch ==
    (/\ script = "check_health"
     /\ observed # <<>>
     /\ Last(observed) = "COMPLETED"
     /\ OnlyNonTerminal(SubSeq(observed, 1, Len(observed) - 1)))
    => LET n == Len(observed) - 1
       IN  /\ pc \in {"fetch", "done"}
           /\ log = CompletedLog(n, pc = "done")
           /\ waited = n * PollInterval

C2_TwoSleepsThenFetch ==
    /\ script = "check_health"
    /\ pc = "done"
    /\ observed = <<"RUNNING", "RUNNING", "COMPLETED">>
    /\ waited = 2 * PollInterval
    /\ returned = "results"

\* The POST was made and gave no usable request id: it failed, or its
\* response has no request_id or an empty one.
SubmissionFailed ==
    /\ script = "check_health"
    /\ "POST /v1/lcm/precheck" \in {log[i] : i \in DOMAIN log}
    /\ \/ "submit" \in failedKinds
       \/ request_id = None
       \/ request_id = Some("")

\* C8: a submission that fails, or whose response has no request_id or an
\* empty one, ends perform_health_precheck with None: no status query, no
\* sleep and no result fetch follows the POST.
C8_NoPollAfterFailedSubmission ==
    SubmissionFailed
    => /\ pc = "done"
       /\ result = None
       /\ log = <<"GET /v3/system", "POST /v1/lcm/precheck">>
       /\ observed = <<>>
       /\ waited = 0

C8_EmptyRequestId ==
    /\ SubmissionFailed
    /\ resp = [kind |-> "submit", status |-> "ok"]
    /\ request_id = Some("")
    /\ pc = "done"
    /\ returned = "no_request_id"

\* C9: a transport error on a status query does not end the tracking: after
\* a first connection error or timeout the loop goes on to the next query.
TransientErrors == {"Unreachable", "TimedOut"}

C9_PollErrorIsTransient ==
    (/\ script = "check_health"
     /\ observed # <<>>
     /\ Last(observed) \in TransientErrors
     /\ Cardinality({i \in DOMAIN observed : observed[i] \in ErrorKinds}) = 1)
    => pc # "done"

---------------------------------------------------------------------------
(* The health aggregation *)

HealthKinds == {"cluster", "hosts", "storage"}

HealthLog == <<"GET /rest/vxm/v1/system", "GET /rest/vxm/v1/cluster",
               "GET /rest/vxm/v16/hosts", "GET /rest/vxm/v16/hosts">>

HealthSteps == <<"version", "cluster", "hosts", "storage", "done">>

\* The run of vxrail_health_check has printed its summary.
Summarised == script = "vxrail_health_check" /\ pc = "done"

\* check_storage_health, called on its own, has returned.
StorageReturned ==
    /\ script = "vxrail_health_check" /\ pc = "returned"
    /\ resp.kind = "storage"

\* C3: the storage check keeps one entry per distinct serial, holding the
\* state of the first record with that serial in host-then-disk order; the
\* later records with that serial change neither the entry nor the verdict.
C3_FirstOccurrenceWins ==
    (StorageReturned /\ given.status = "ok")
    => LET flat == Flatten(given.body)
       IN  /\ DOMAIN storage_info = {SerialOf(flat[i]) : i \in DOMAIN flat}
           /\ \A i \in FirstSeen(flat) :
                 storage_info[SerialOf(flat[i])]
                    = Get(flat[i], "disk_state", S_Unknown)
           /\ given.body # <<>>
                 => storage_healthy
                       = (\A i \in FirstSeen(flat) : DiskHealthy(flat[i]))

C3_DuplicateAcrossHosts ==
    /\ StorageReturned
    /\ given.status = "ok"
    /\ given.body
          = <<[hostname |-> "h",
               disks |-> <<[disk_type |-> "SSD", sn |-> S_SN1,
                            disk_state |-> S_OK]>>],
              [hostname |-> "h",
               disks |-> <<[disk_type |-> "SSD", sn |-> S_SN1,
                            disk_state |-> S_DEGRADED]>>]>>
    /\ storage_info = (S_SN1 :> S_OK)
    /\ storage_healthy

C5_FailedQueryIsUnknown ==
    (/\ Summarised
     /\ failedKinds \cap HealthKinds = {"storage"}
     /\ resp.status = "Unreachable"
     /\ unhealthyKinds = {})
    => /\ summary[1].storage \notin {"Healthy", "Unhealthy"}
       /\ summary[1].overall \notin {"HEALTHY", "ATTENTION REQUIRED"}

\* C6: a cluster or host record is healthy iff its health label equals
\* "healthy" without regard to case, and a disk record iff its disk_state
\* equals "OK" without regard to case; a record without the field is not
\* healthy.
C6_CaseInsensitiveHealthy ==
    (script = "vxrail_health_check" /\ pc = "returned" /\ given.status = "ok")
    => /\ resp.kind = "cluster"
            => cluster_healthy = RecordHealthy(given.body)
       /\ (resp.kind = "hosts" /\ given.body # <<>>)
            => hosts_healthy
                  = (\A i \in DOMAIN given.body : RecordHealthy(given.body[i]))
       /\ (resp.kind = "storage" /\ Len(Flatten(given.body)) = 1)
            => storage_healthy = DiskHealthy(Flatten(given.body)[1])

C6_UpperCaseLabelIsHealthy ==
    /\ script = "vxrail_health_check" /\ pc = "returned"
    /\ resp.kind = "cluster"
    /\ given = [status |-> "ok",
                body |-> [cluster_name |-> "c1", health |-> S_HEALTHY]]
    /\ cluster_healthy

\* C7: once a request is answered with 401 the run issues no further
\* request.
C7_UnauthorizedIsFatal ==
    authFailedAt # 0 => Len(log) = authFailedAt

\* C10: a failed query never ends the run early: the health check issues
\* its queries in order and prints its summary, and get_hardware_inventory
\* issues the hosts, chassis and disks queries and returns an inventory whose
\* section is the empty list for each failed query and the response for each
\* query that succeeded.
C10_PartialResults ==
    /\ (script \in {"vxrail_health_check", "hardware_inventory"}
            /\ pc \notin {"done", "returned"})
         => ENABLED Next
    /\ (script = "vxrail_health_check" /\ pc \in Range(HealthSteps))
         => /\ log = SubSeq(HealthLog, 1, Len(log))
            /\ pc = HealthSteps[Len(log) + 1]
            /\ pc = "done" => summary # None
    /\ script = "hardware_inventory"
         => /\ log = [i \in 1..Len(log) |-> Endpoints[Sections[i]]]
            /\ pc = (Sections \o <<"done">>)[Len(log) + 1]
            /\ \A i \in 1..Len(replies) :
                  inventory[Sections[i]]
                     = IF replies[i].status = "ok" THEN replies[i].body
                       ELSE <<>>

C10_InventoryWithFailedSection ==
    /\ script = "hardware_inventory"
    /\ pc = "done"
    /\ replies[1].status = "NotFound"
    /\ replies[2] = [status |-> "ok", body |-> <<"item1", "item2">>]
    /\ replies[3].status = "TimedOut"
    /\ inventory = [hosts |-> <<>>, chassis |-> <<"item1", "item2">>,
                    disks |-> <<>>]

---------------------------------------------------------------------------
(* Terminal states of the pre-check and the result resource *)

StatusQuery == "GET /v1/requests/{request_id}"

ResultFetch == "GET /v1/system/prechecks/{request_id}/result"

\* The number of status queries among the first i entries of the log: the
\* k-th status query is the one that observed[k] answers.
StatusQueriesUpTo(i) ==
    Cardinality({j \in 1..i : log[j] = StatusQuery})

\* C11: the result fetch is issued only right after a status query that
\* observed COMPLETED, and at most once; after FAILED is observed the tracker
\* has returned the failure outcome, with no result fetch and no further
\* status query; a payload is returned only when COMPLETED was observed and
\* the result fetch succeeded, and it is the response of the result fetch,
\* never a status response.
C11_TerminalStatesAndResultResource ==
    script = "check_health"
    => /\ \A i \in DOMAIN log :
             log[i] = ResultFetch
             => /\ i > 1 /\ log[i - 1] = StatusQuery
                /\ StatusQueriesUpTo(i) \in DOMAIN observed
                /\ observed[StatusQueriesUpTo(i)] = "COMPLETED"
                /\ i = Len(log)
       /\ Cardinality({i \in DOMAIN log : log[i] = ResultFetch}) <= 1
       /\ \A k \in DOMAIN observed :
             observed[k] \in {"COMPLETED", "FAILED"} => k = Len(observed)
       /\ "FAILED" \in Range(observed)
            => /\ pc = "done" /\ returned = "failed" /\ result = None
               /\ ResultFetch \notin Range(log)
               /\ Last(log) = StatusQuery
               /\ StatusQueriesUpTo(Len(log)) = Len(observed)
       /\ result # None
            => /\ pc = "done" /\ returned = "results"
               /\ Last(observed) = "COMPLETED"
               /\ Last(log) = ResultFetch
               /\ resp = [kind |-> "result", status |-> "ok"]
               /\ result[1] \in ResultBodies
               /\ result[1] \notin StatusBodies
       /\ (pc = "done" /\ returned # "results") => result = None

C11_FailedAfterRunning ==
    /\ script = "check_health"
    /\ pc = "done"
    /\ observed = <<"RUNNING", "FAILED">>
    /\ returned = "failed"
    /\ result = None
    /\ Last(log) = StatusQuery

---------------------------------------------------------------------------
(* Kinds without records *)

\* The kinds whose query succeeded and gave no entity record
RecordlessKinds == (HealthKinds \ failedKinds) \ hasRecords

\* C12: in a run whose queries all succeed, a kind whose query gave no
\* entity record (storage, when the hosts response lists hosts and no host
\* lists a disk) is not reported as healthy in the summary.
C12_NoRecordsNotHealthy ==
    (Summarised /\ failedKinds = {})
    => \A kind \in RecordlessKinds : summary[1][kind] # "Healthy"

---------------------------------------------------------------------------
(* Disks hidden by the serial key *)

\* C13: for a successful hosts response, check_storage_health returns True
\* only if every disk record under every host has a disk_state equal to OK
\* without regard to case, the records without a serial and the records
\* that repeat a serial included.
C13_NoUnhealthyDiskMasked ==
    (StorageReturned /\ given.status = "ok" /\ storage_healthy)
    => LET flat == Flatten(given.body)
       IN  \A i \in DOMAIN flat : DiskHealthy(flat[i])

---------------------------------------------------------------------------
(* The version warning *)

\* The value of a decimal digit
DecimalDigits == <<"0", "1", "2", "3", "4", "5", "6", "7", "8", "9">>

DigitValue(c) == CHOOSE n \in 0..9 : DecimalDigits[n + 1] = c

\* The numbers between the dots of a version, left to right;
\* acc is the number read so far in the current component.
RECURSIVE ComponentsFrom(_, _)
ComponentsFrom(v, acc) ==
    IF v = <<>> THEN <<acc>>
    ELSE IF Head(v) = "." THEN <<acc>> \o ComponentsFrom(Tail(v), 0)
    ELSE ComponentsFrom(Tail(v), 10 * acc + DigitValue(Head(v)))

Components(v) == ComponentsFrom(v, 0)

\* a is older than b, compared component by component as numbers
RECURSIVE NumericallyOlder(_, _)
NumericallyOlder(a, b) ==
    IF a = <<>> \/ b = <<>> THEN a = <<>> /\ b # <<>>
    ELSE IF Head(a) # Head(b) THEN Head(a) < Head(b)
    ELSE NumericallyOlder(Tail(a), Tail(b))

\* main has made the version check and the system reported a version.
VersionReported ==
    /\ script = "vxrail_health_check"
    /\ pc \in {"cluster", "hosts", "storage", "done"}
    /\ version # None

\* C14: the compatibility warning is printed iff the reported version is
\* older than 8.0.000 when compared component by component as numbers; no
\* warning for a major number of 8 or more, such as 10.0.000.
C14_WarningIffNumericallyOlder ==
    VersionReported
    => (versionNote = "older"
        <=> NumericallyOlder(Components(version[1]), <<8, 0, 0>>))

====
